---- MODULE Spec2Model ----
(***************************************************************************)
(* FocusFlow: the bionic-reading transformation of components/Reader.tsx.  *)
(* Strings are sequences of UTF-16 code units (all characters used here    *)
(* are in the Basic Multilingual Plane, one unit each).                    *)
(***************************************************************************)
EXTENDS Integers, Sequences, FiniteSets, TLC

VARIABLES text, settings, Intl, rendered, processedContent, thrown

\* the state of App: its useState values, its refs, the audio nodes it
\* created and the handleTTS calls in flight; sinceChange records that text
\* or viewMode changed and Listen has not been pressed since
VARIABLES viewMode, showSettings, processing, audioContextRef, audioSourceRef,
          sources, calls, sinceChange

readerVars == <<text, settings, Intl, rendered, processedContent, thrown>>

audioVars == <<audioContextRef, audioSourceRef, sources, calls>>

appVars == <<viewMode, showSettings, processing, audioContextRef, audioSourceRef,
             sources, calls, sinceChange>>

vars == <<text, settings, Intl, rendered, processedContent, thrown,
          viewMode, showSettings, processing, audioContextRef, audioSourceRef,
          sources, calls, sinceChange>>

(***************************************************************************)
(* Bounds of the explored inputs.                                          *)
(***************************************************************************)
MaxLen == 3        \* texts over the whole alphabet have at most MaxLen characters
MaxCore == 13      \* single-word texts (one repeated character) up to this length
MaxBreakPos == 2   \* the segmenter places its word boundaries in the first positions
MaxCalls == 2      \* handleTTS is started at most MaxCalls times

(***************************************************************************)
(* Characters.                                                             *)
(***************************************************************************)
LF == 10           \* "\n", the separator of text.split(/\n+/)
SPACE == 32        \* " ", the separator of paragraph.split(' ')

\* the alphabet of the explored texts: the two separators and
\*   46     "."     neither \w nor in the core class
\*   97     "a"     \w
\*   233    U+00E9  \W, but in the core class
\*   20013  U+4E2D  a CJK unified ideograph, in [\u4e00-\u9fa5]
\*   40870  U+9FA6  first code unit after [\u4e00-\u9fa5], still in the core class
Chars == {LF, SPACE, 46, 97, 233, 20013, 40870}

Strengths == 0..4

ShortTexts == UNION {[1..n -> Chars] : n \in 0..MaxLen}

LongWords == UNION {{[i \in 1..n |-> c] : c \in {97, 20013}} : n \in (MaxLen + 1)..MaxCore}

Texts == ShortTexts \cup LongWords

(***************************************************************************)
(* Character classes of the regular expressions.                           *)
(***************************************************************************)
\* /[\u4e00-\u9fa5]/ on one code unit
IsChineseCodeUnit(c) == c >= 19968 /\ c <= 40869

\* isChineseChar and hasChinese are the same unanchored test
IsChineseChar(s) == \E i \in 1..Len(s) : IsChineseCodeUnit(s[i])

HasChineseWide(s) == \E i \in 1..Len(s) : s[i] >= 19968 /\ s[i] <= 40959

HasChinese(s) == \E i \in 1..Len(s) : IsChineseCodeUnit(s[i])

\* \w without the u or i flag: [A-Za-z0-9_]
IsWordChar(c) ==
    \/ c \in 48..57
    \/ c \in 65..90
    \/ c = 95
    \/ c \in 97..122

\* /\w/.test(word)
HasWordChar(s) == \E i \in 1..Len(s) : IsWordChar(s[i])

\* the class [\w\u00C0-\u017F\u4E00-\u9FFF'-]
IsCoreChar(c) ==
    \/ IsWordChar(c)
    \/ c \in 192..383
    \/ c \in 19968..40959
    \/ c = 39
    \/ c = 45

\* the characters String.prototype.trim removes, among those of the alphabet
IsWhiteSpace(c) == c \in {9, 10, 11, 12, 13, 32, 160}

\* word.trim()
RECURSIVE TrimLeft(_)
TrimLeft(s) ==
    IF s = <<>> THEN <<>>
    ELSE IF IsWhiteSpace(Head(s)) THEN TrimLeft(Tail(s))
    ELSE s

RECURSIVE TrimRight(_)
TrimRight(s) ==
    IF s = <<>> THEN <<>>
    ELSE IF IsWhiteSpace(s[Len(s)]) THEN TrimRight(SubSeq(s, 1, Len(s) - 1))
    ELSE s

Trim(s) == TrimRight(TrimLeft(s))

(***************************************************************************)
(* String helpers.                                                         *)
(***************************************************************************)
Min(a, b) == IF a < b THEN a ELSE b

Max(a, b) == IF a > b THEN a ELSE b

\* Math.ceil(num / den) for positive den
MathCeil(num, den) == (num + den - 1) \div den

\* s.substring(from0, to0) with 0-based clamped indices
Substring(s, from0, to0) ==
    LET a == Min(Max(from0, 0), Len(s))
        b == Min(Max(to0, 0), Len(s))
    IN  SubSeq(s, Min(a, b) + 1, Max(a, b))

\* text.split(/\n+/)
RECURSIVE SplitNewlinesFrom(_, _, _, _)
SplitNewlinesFrom(s, i, cur, acc) ==
    IF i > Len(s) THEN Append(acc, cur)
    ELSE IF s[i] = LF
         THEN IF i > 1 /\ s[i - 1] = LF
              THEN SplitNewlinesFrom(s, i + 1, cur, acc)
              ELSE SplitNewlinesFrom(s, i + 1, <<>>, Append(acc, cur))
         ELSE SplitNewlinesFrom(s, i + 1, Append(cur, s[i]), acc)

SplitNewlines(s) == SplitNewlinesFrom(s, 1, <<>>, <<>>)

\* paragraph.split(' ')
RECURSIVE SplitSpaceFrom(_, _, _, _)
SplitSpaceFrom(s, i, cur, acc) ==
    IF i > Len(s) THEN Append(acc, cur)
    ELSE IF s[i] = SPACE
         THEN SplitSpaceFrom(s, i + 1, <<>>, Append(acc, cur))
         ELSE SplitSpaceFrom(s, i + 1, Append(cur, s[i]), acc)

\* a split that drops the empty tokens, as paragraph.split(' ').filter(Boolean) would
SplitSpaceNoEmpty(s) == SelectSeq(SplitSpaceFrom(s, 1, <<>>, <<>>), LAMBDA w : w # <<>>)

SplitSpace(s) == SplitSpaceFrom(s, 1, <<>>, <<>>)

\* paragraph.split(''): one segment per code unit
SplitChars(s) == [i \in 1..Len(s) |-> <<s[i]>>]

(***************************************************************************)
(* Intl.Segmenter('zh', {granularity: 'word'}).segment(paragraph): the     *)
(* segments are contiguous, non-empty and cover the paragraph; where the   *)
(* boundaries fall is decided by the runtime's dictionary, so the set of   *)
(* boundary positions is an input of the model.                            *)
(***************************************************************************)
RECURSIVE CutFrom(_, _, _, _, _)
CutFrom(s, breaks, i, cur, acc) ==
    IF i > Len(s) THEN (IF cur = <<>> THEN acc ELSE Append(acc, cur))
    ELSE IF i \in breaks
         THEN CutFrom(s, breaks, i + 1, <<>>, Append(acc, Append(cur, s[i])))
         ELSE CutFrom(s, breaks, i + 1, Append(cur, s[i]), acc)

SegmenterSegment(s, breaks) == CutFrom(s, breaks, 1, <<>>, <<>>)

Segments(paragraph, intl) ==
    IF intl.Segmenter
    THEN SegmenterSegment(paragraph, intl.breaks)
    ELSE SplitChars(paragraph)

(***************************************************************************)
(* The rendered nodes.  A segment is one <span>: the text before the <b>,  *)
(* the <b>, the text of the inner <span>, the text after it and the        *)
(* literal {' '} that closes a Latin span.  A span without <b> carries     *)
(* its whole text in leading.                                              *)
(***************************************************************************)
PClass == "mb-6 last:mb-0"

PClassChinese == "mb-6 last:mb-0 leading-relaxed text-justify"

PlainSpan(word, space) ==
    [hasBold |-> FALSE, leading |-> word, bold |-> <<>>, normal |-> <<>>,
     trailing |-> <<>>, space |-> space]

BionicSpan(prefix, boldPart, normalPart, suffix, space) ==
    [hasBold |-> TRUE, leading |-> prefix, bold |-> boldPart, normal |-> normalPart,
     trailing |-> suffix, space |-> space]

(***************************************************************************)
(* Chinese branch.                                                         *)
(***************************************************************************)
ChineseBoldLengthFloor(L, strength) ==
    LET b0 == 1
        b1 == IF L >= 2 THEN MathCeil(L, 2) ELSE b0
        b2 == IF strength = 1 THEN 1 ELSE b1
    IN  IF strength = 3 THEN (L * 7) \div 10 ELSE b2

ChineseBoldLength(L, strength) ==
    LET b0 == 1
        b1 == IF L >= 2 THEN MathCeil(L, 2) ELSE b0
        b2 == IF strength = 1 THEN 1 ELSE b1
    IN  IF strength = 3 THEN MathCeil(L * 7, 10) ELSE b2

ProcessSegmentNoSymbolTest(word, strength) ==
    IF Trim(word) = <<>> THEN PlainSpan(word, <<>>)
    ELSE LET boldLength == ChineseBoldLength(Len(word), strength)
         IN  BionicSpan(<<>>, Substring(word, 0, boldLength),
                        Substring(word, boldLength, Len(word)), <<>>, <<>>)

ProcessSegment(word, strength) ==
    IF Trim(word) = <<>> THEN PlainSpan(word, <<>>)
    ELSE IF ~IsChineseChar(word) /\ ~HasWordChar(word) THEN PlainSpan(word, <<>>)
    ELSE LET boldLength == ChineseBoldLength(Len(word), strength)
         IN  BionicSpan(<<>>, Substring(word, 0, boldLength),
                        Substring(word, boldLength, Len(word)), <<>>, <<>>)

(***************************************************************************)
(* Latin branch.                                                           *)
(***************************************************************************)
AllNonWord(s, from, to) == \A i \in from..to : ~IsWordChar(s[i])

AllCore(s, from, to) == \A i \in from..to : IsCoreChar(s[i])

\* word.match(/^(\W*)([\w\u00C0-\u017F\u4E00-\u9FFF'-]+)(\W*)$/): the pairs
\* <<p, c>> (length of group 1, length of group 2) of the successful matches
MatchSplits(word) ==
    {pc \in (0..Len(word)) \X (1..Max(Len(word), 1)) :
        /\ pc[1] + pc[2] <= Len(word)
        /\ AllNonWord(word, 1, pc[1])
        /\ AllCore(word, pc[1] + 1, pc[1] + pc[2])
        /\ AllNonWord(word, pc[1] + pc[2] + 1, Len(word))}

\* the match the backtracking engine returns: both quantifiers are greedy,
\* group 1 is tried longest first, then group 2 longest first
WordMatch(word) ==
    LET ms == MatchSplits(word)
    IN  IF ms = {} THEN [matched |-> FALSE, prefix |-> <<>>, core |-> <<>>, suffix |-> <<>>]
        ELSE LET p == CHOOSE p \in {m[1] : m \in ms} : \A m \in ms : m[1] <= p
                 c == CHOOSE c \in {m[2] : m \in {n \in ms : n[1] = p}} :
                          \A m \in ms : m[1] = p => m[2] <= c
             IN  [matched |-> TRUE,
                  prefix |-> SubSeq(word, 1, p),
                  core |-> SubSeq(word, p + 1, p + c),
                  suffix |-> SubSeq(word, p + c + 1, Len(word))]

LatinBoldLengthTimesTwo(L, strength) ==
    LET b0 == 1
        b1 == IF L > 3 THEN MathCeil(L * 2, 1) ELSE b0
        b2 == IF L <= 3 /\ strength >= 2 THEN 1 ELSE b1
    IN  IF strength = 3 THEN MathCeil(L * 6, 10) ELSE b2

LatinBoldLengthWeakStrong(L, strength) ==
    LET b0 == 1
        b1 == IF L > 3 THEN MathCeil(L, 2) ELSE b0
        b2 == IF L <= 3 /\ strength >= 2 THEN 1 ELSE b1
    IN  IF strength = 3 THEN MathCeil(L * 4, 10) ELSE b2

LatinBoldLengthElseIf(L, strength) ==
    IF L > 3 THEN MathCeil(L, 2)
    ELSE IF L <= 3 /\ strength >= 2 THEN 1
    ELSE IF strength = 3 THEN MathCeil(L * 6, 10)
    ELSE 1

LatinBoldLength(L, strength) ==
    LET b0 == 1
        b1 == IF L > 3 THEN MathCeil(L, 2) ELSE b0
        b2 == IF L <= 3 /\ strength >= 2 THEN 1 ELSE b1
    IN  IF strength = 3 THEN MathCeil(L * 6, 10) ELSE b2

ProcessWordOffByOne(word, strength) ==
    LET match == WordMatch(word)
    IN  IF match.matched
        THEN IF match.core = <<>> THEN PlainSpan(word, <<SPACE>>)
             ELSE LET boldLength == LatinBoldLength(Len(match.core), strength)
                  IN  BionicSpan(match.prefix,
                                 Substring(match.core, 0, boldLength),
                                 Substring(match.core, boldLength + 1, Len(match.core)),
                                 match.suffix, <<SPACE>>)
        ELSE PlainSpan(word, <<SPACE>>)

ProcessWord(word, strength) ==
    LET match == WordMatch(word)
    IN  IF match.matched
        THEN IF match.core = <<>> THEN PlainSpan(word, <<SPACE>>)
             ELSE LET boldLength == LatinBoldLength(Len(match.core), strength)
                  IN  BionicSpan(match.prefix,
                                 Substring(match.core, 0, boldLength),
                                 Substring(match.core, boldLength, Len(match.core)),
                                 match.suffix, <<SPACE>>)
        ELSE PlainSpan(word, <<SPACE>>)

(***************************************************************************)
(* transformToBionic and Reader.processedContent.                          *)
(***************************************************************************)
TransformParagraph(paragraph, strength, intl) ==
    IF HasChinese(paragraph)
    THEN LET segments == Segments(paragraph, intl)
         IN  [className |-> PClassChinese,
              children |-> [s \in 1..Len(segments) |-> ProcessSegment(segments[s], strength)]]
    ELSE LET words == SplitSpace(paragraph)
         IN  [className |-> PClass,
              children |-> [w \in 1..Len(words) |-> ProcessWord(words[w], strength)]]

TransformToBionicNoGuard(t, strength, intl) ==
    LET paragraphs == SplitNewlines(t)
    IN  [p \in 1..Len(paragraphs) |-> TransformParagraph(paragraphs[p], strength, intl)]

TransformToBionic(t, strength, intl) ==
    IF t = <<>> THEN <<>>
    ELSE LET paragraphs == SplitNewlines(t)
         IN  [p \in 1..Len(paragraphs) |-> TransformParagraph(paragraphs[p], strength, intl)]

PlainParagraphs(t) ==
    LET paragraphs == SplitNewlines(t)
    IN  [p \in 1..Len(paragraphs) |->
            [className |-> PClass, children |-> <<PlainSpan(paragraphs[p], <<>>)>>]]

ProcessedContentAlwaysBionic(t, s, intl) ==
    TransformToBionic(t, s.bionicStrength, intl)

ProcessedContent(t, s, intl) ==
    IF s.bionicEnabled
    THEN TransformToBionic(t, s.bionicStrength, intl)
    ELSE PlainParagraphs(t)

(***************************************************************************)
(* The state machine: Reader is given its props and renders once.          *)
(***************************************************************************)
IntlValues ==
    {[Segmenter |-> FALSE, breaks |-> {}]}
    \cup {[Segmenter |-> TRUE, breaks |-> b] : b \in SUBSET (1..MaxBreakPos)}

\* the values of App's useState and useRef calls
AppInit ==
    /\ viewMode = "input"
    /\ showSettings = FALSE
    /\ processing = [isSummarizing |-> FALSE, isSpeaking |-> FALSE, isSimplifying |-> FALSE]
    /\ audioContextRef = [created |-> FALSE, state |-> "suspended", target |-> "suspended"]
    /\ audioSourceRef = 0
    /\ sources = [c \in 1..MaxCalls |-> [state |-> "none", endedPending |-> FALSE]]
    /\ calls = [c \in 1..MaxCalls |-> "idle"]
    /\ sinceChange = FALSE

Init ==
    /\ text \in Texts
    /\ settings \in [bionicEnabled : BOOLEAN, bionicStrength : Strengths,
                      readingRulerEnabled : {FALSE}]
    /\ Intl \in IntlValues
    /\ rendered = FALSE
    /\ processedContent = <<>>
    /\ thrown = FALSE
    /\ AppInit

\* Reader evaluates the useMemo callback; nothing in it throws
Render ==
    /\ ~rendered
    /\ rendered' = TRUE
    /\ processedContent' = ProcessedContent(text, settings, Intl)
    /\ thrown' = FALSE
    /\ UNCHANGED <<text, settings, Intl>>
    /\ UNCHANGED appVars

Next == Render

Spec == Init /\ [][Next]_vars

(***************************************************************************)
(* App: the view, the settings panel, the AI requests and text-to-speech.  *)
(***************************************************************************)
\* DEFAULT_TEXT, shortened to one Latin and one CJK paragraph: "a a\n<U+4E2D>."
DefaultText == <<97, SPACE, 97, LF, 20013, 46>>

\* the texts a textarea edit, an uploaded file or an AI answer may bring
AppTexts == {DefaultText, <<>>, <<97>>}

\* <input type="range" min="1" max="3">, step 1
SliderValuesFromZero == 0..3

SliderValues == 1..3

AiKinds == {"isSummarizing", "isSimplifying"}

CallIds == 1..MaxCalls

\* Reader is mounted in the read view only and re-evaluates its useMemo
ReaderRender ==
    /\ rendered' = (viewMode' = "read")
    /\ processedContent' = IF viewMode' = "read"
                           THEN ProcessedContent(text', settings', Intl)
                           ELSE <<>>
    /\ thrown' = FALSE
    /\ UNCHANGED Intl

\* stopAudio, followed by the state of processing being proc with isSpeaking false
StopAudio(proc) ==
    /\ sources' = IF audioSourceRef # 0 /\ sources[audioSourceRef].state = "started"
                  THEN [sources EXCEPT ![audioSourceRef] =
                            [state |-> "finished", endedPending |-> TRUE]]
                  ELSE sources
    /\ audioSourceRef' = 0
    /\ audioContextRef' = IF audioContextRef.created /\ audioContextRef.state = "running"
                          THEN [audioContextRef EXCEPT !.target = "suspended"]
                          ELSE audioContextRef
    /\ processing' = [proc EXCEPT !.isSpeaking = FALSE]
    /\ UNCHANGED calls

\* the cleanup of useEffect(..., [text, viewMode]) runs when a dependency changed
EffectCleanup(proc) ==
    IF text' # text \/ viewMode' # viewMode
    THEN StopAudio(proc) /\ sinceChange' = TRUE
    ELSE processing' = proc /\ UNCHANGED <<audioVars, sinceChange>>

\* SettingsPanel.update
Update(key, value) == [settings EXCEPT ![key] = value]

TextareaChange(t) ==
    /\ viewMode = "input"
    /\ t # text
    /\ text' = t
    /\ UNCHANGED <<viewMode, showSettings, settings>>
    /\ EffectCleanup(processing)
    /\ ReaderRender

HandleFileUpload(t) ==
    /\ viewMode = "input"
    /\ text' = t
    /\ viewMode' = "read"
    /\ UNCHANGED <<showSettings, settings>>
    /\ EffectCleanup(processing)
    /\ ReaderRender

StartReading ==
    /\ viewMode = "input"
    /\ Trim(text) # <<>>
    /\ viewMode' = "read"
    /\ UNCHANGED <<text, showSettings, settings>>
    /\ EffectCleanup(processing)
    /\ ReaderRender

BackToInput ==
    /\ viewMode = "read"
    /\ viewMode' = "input"
    /\ UNCHANGED <<text, showSettings, settings>>
    /\ EffectCleanup(processing)
    /\ ReaderRender

\* handleSummarize / handleSimplify up to their await
AiRequest(kind) ==
    /\ viewMode = "input"
    /\ Trim(text) # <<>>
    /\ ~processing[kind]
    /\ processing' = [processing EXCEPT ![kind] = TRUE]
    /\ UNCHANGED <<text, viewMode, showSettings, settings, audioVars, sinceChange>>
    /\ ReaderRender

\* the answer arrives: setText, setViewMode('read'), finally
AiAnswer(kind, t) ==
    /\ processing[kind]
    /\ t # <<>>
    /\ text' = t
    /\ viewMode' = "read"
    /\ UNCHANGED <<showSettings, settings>>
    /\ EffectCleanup([processing EXCEPT ![kind] = FALSE])
    /\ ReaderRender

\* the request fails: alert, finally
AiFailure(kind) ==
    /\ processing[kind]
    /\ processing' = [processing EXCEPT ![kind] = FALSE]
    /\ UNCHANGED <<text, viewMode, showSettings, settings, audioVars, sinceChange>>
    /\ ReaderRender

ToggleSettings ==
    /\ viewMode = "read"
    /\ showSettings' = ~showSettings
    /\ UNCHANGED <<text, viewMode, settings, processing, audioVars, sinceChange>>
    /\ ReaderRender

SettingsShown == showSettings /\ viewMode = "read"

ToggleBionic ==
    /\ SettingsShown
    /\ settings' = Update("bionicEnabled", ~settings.bionicEnabled)
    /\ UNCHANGED <<text, viewMode, showSettings, processing, audioVars, sinceChange>>
    /\ ReaderRender

MoveStrengthSlider(v) ==
    /\ SettingsShown
    /\ settings.bionicEnabled
    /\ v # settings.bionicStrength
    /\ settings' = Update("bionicStrength", v)
    /\ UNCHANGED <<text, viewMode, showSettings, processing, audioVars, sinceChange>>
    /\ ReaderRender

ToggleReadingRuler ==
    /\ SettingsShown
    /\ settings' = Update("readingRulerEnabled", ~settings.readingRulerEnabled)
    /\ UNCHANGED <<text, viewMode, showSettings, processing, audioVars, sinceChange>>
    /\ ReaderRender

(***************************************************************************)
(* handleTTS.  A call runs to its first await, and continues when the      *)
(* awaited promise settles.  AudioContext.state follows the control        *)
(* messages (start, resume, suspend) asynchronously; target is the state   *)
(* the context has once the messages sent so far are processed, which is   *)
(* also what a source started now is rendered under.                       *)
(***************************************************************************)
NextCall == CHOOSE c \in CallIds : calls[c] = "idle" /\ \A d \in CallIds : calls[d] = "idle" => c <= d

\* the button shows Listen
ListenClick ==
    /\ viewMode = "read"
    /\ ~processing.isSpeaking
    /\ \E c \in CallIds : calls[c] = "idle"
    /\ processing' = [processing EXCEPT !.isSpeaking = TRUE]
    /\ sinceChange' = FALSE
    /\ IF ~audioContextRef.created
       THEN /\ \E st \in {"suspended", "running"} :
                   audioContextRef' = [created |-> TRUE, state |-> st, target |-> "running"]
            /\ calls' = [calls EXCEPT ![NextCall] = "fetch"]
       ELSE IF audioContextRef.state = "suspended"
       THEN /\ audioContextRef' = [audioContextRef EXCEPT !.target = "running"]
            /\ calls' = [calls EXCEPT ![NextCall] = "resume"]
       ELSE /\ calls' = [calls EXCEPT ![NextCall] = "fetch"]
            /\ UNCHANGED audioContextRef
    /\ UNCHANGED <<text, viewMode, showSettings, settings, audioSourceRef, sources>>
    /\ ReaderRender

\* the button shows Stop
StopClick ==
    /\ viewMode = "read"
    /\ processing.isSpeaking
    /\ StopAudio(processing)
    /\ UNCHANGED <<text, viewMode, showSettings, settings, sinceChange>>
    /\ ReaderRender

\* audioContextRef.current.resume() resolves; the call goes on to generateSpeech
ResumeResolved(c) ==
    /\ calls[c] = "resume"
    /\ calls' = [calls EXCEPT ![c] = "fetch"]
    /\ audioContextRef' = [audioContextRef EXCEPT !.state = audioContextRef.target]
    /\ UNCHANGED <<text, viewMode, showSettings, settings, processing,
                   audioSourceRef, sources, sinceChange>>
    /\ ReaderRender

\* generateSpeech resolves: decode, createBufferSource, start, audioSourceRef
SpeechResolved(c) ==
    /\ calls[c] = "fetch"
    /\ calls' = [calls EXCEPT ![c] = "done"]
    /\ sources' = [sources EXCEPT ![c] = [state |-> "started", endedPending |-> FALSE]]
    /\ audioSourceRef' = c
    /\ UNCHANGED <<text, viewMode, showSettings, settings, processing,
                   audioContextRef, sinceChange>>
    /\ ReaderRender

\* generateSpeech rejects (or decoding throws): the catch block
SpeechRejected(c) ==
    /\ calls[c] = "fetch"
    /\ calls' = [calls EXCEPT ![c] = "done"]
    /\ processing' = [processing EXCEPT !.isSpeaking = FALSE]
    /\ UNCHANGED <<text, viewMode, showSettings, settings,
                   audioContextRef, audioSourceRef, sources, sinceChange>>
    /\ ReaderRender

\* the state attribute of the context catches up with the control messages
ContextStateChange ==
    /\ audioContextRef.created
    /\ audioContextRef.state # audioContextRef.target
    /\ audioContextRef' = [audioContextRef EXCEPT !.state = audioContextRef.target]
    /\ UNCHANGED <<text, viewMode, showSettings, settings, processing,
                   audioSourceRef, sources, calls, sinceChange>>
    /\ ReaderRender

\* a source plays its buffer to the end; its ended event is queued
SourceFinished(c) ==
    /\ sources[c].state = "started"
    /\ audioContextRef.state = "running"
    /\ audioContextRef.target = "running"
    /\ sources' = [sources EXCEPT ![c] = [state |-> "finished", endedPending |-> TRUE]]
    /\ UNCHANGED <<text, viewMode, showSettings, settings, processing,
                   audioContextRef, audioSourceRef, calls, sinceChange>>
    /\ ReaderRender

\* source.onended
OnEnded(c) ==
    /\ sources[c].endedPending
    /\ sources' = [sources EXCEPT ![c].endedPending = FALSE]
    /\ processing' = [processing EXCEPT !.isSpeaking = FALSE]
    /\ audioSourceRef' = 0
    /\ UNCHANGED <<text, viewMode, showSettings, settings,
                   audioContextRef, calls, sinceChange>>
    /\ ReaderRender

InitApp ==
    /\ text = DefaultText
    /\ settings = [bionicEnabled |-> TRUE, bionicStrength |-> 2,
                   readingRulerEnabled |-> FALSE]
    /\ Intl = [Segmenter |-> FALSE, breaks |-> {}]
    /\ rendered = FALSE
    /\ processedContent = <<>>
    /\ thrown = FALSE
    /\ AppInit

NextApp ==
    \/ \E t \in AppTexts : TextareaChange(t)
    \/ \E t \in AppTexts : HandleFileUpload(t)
    \/ StartReading
    \/ BackToInput
    \/ \E kind \in AiKinds : AiRequest(kind)
    \/ \E kind \in AiKinds, t \in AppTexts : AiAnswer(kind, t)
    \/ \E kind \in AiKinds : AiFailure(kind)
    \/ ToggleSettings
    \/ ToggleBionic
    \/ \E v \in SliderValues : MoveStrengthSlider(v)
    \/ ToggleReadingRuler
    \/ ListenClick
    \/ StopClick
    \/ \E c \in CallIds : ResumeResolved(c)
    \/ \E c \in CallIds : SpeechResolved(c)
    \/ \E c \in CallIds : SpeechRejected(c)
    \/ ContextStateChange
    \/ \E c \in CallIds : SourceFinished(c)
    \/ \E c \in CallIds : OnEnded(c)

SpecApp == InitApp /\ [][NextApp]_vars

(***************************************************************************)
(* Reading the rendered tree back.                                         *)
(***************************************************************************)
Enabled13 == settings.bionicEnabled /\ settings.bionicStrength \in 1..3

SegText(seg) == seg.leading \o seg.bold \o seg.normal \o seg.trailing

CoreLength(seg) == Len(seg.bold) + Len(seg.normal)

\* the segments' texts, each but the last followed by the separator its span carries
RECURSIVE JoinSegs(_)
JoinSegs(children) ==
    IF children = <<>> THEN <<>>
    ELSE IF Len(children) = 1 THEN SegText(children[1])
    ELSE SegText(children[1]) \o children[1].space \o JoinSegs(Tail(children))

RECURSIVE JoinParagraphs(_)
JoinParagraphs(ps) ==
    IF ps = <<>> THEN <<>> ELSE JoinSegs(ps[1].children) \o JoinParagraphs(Tail(ps))

WithoutNewlines(s) == SelectSeq(s, LAMBDA c : c # LF)

\* number of maximal non-empty runs of non-newline characters
NonEmptyRuns(s) ==
    Cardinality({i \in 1..Len(s) : s[i] # LF /\ (i = 1 \/ s[i - 1] = LF)})

ParagraphSegs ==
    UNION {{<<p, k>> : k \in 1..Len(processedContent[p].children)} :
              p \in 1..Len(processedContent)}

SegAt(pk) == processedContent[pk[1]].children[pk[2]]

IsChineseParagraph(pk) == processedContent[pk[1]].className = PClassChinese

(***************************************************************************)
(* C1 Reconstruction: for strengths 1..3 and both values of bionicEnabled, *)
(* the segments of every rendered paragraph (leading, bold, normal,        *)
(* trailing), joined by the separator of the mode (one space between Latin *)
(* tokens, nothing between CJK segments), give back the paragraph of the   *)
(* input exactly; over the whole output no character other than the        *)
(* newlines is added, dropped or reordered.                                *)
(***************************************************************************)
C1_Reconstruction ==
    (rendered /\ settings.bionicStrength \in 1..3) =>
        LET paragraphs == SplitNewlines(text)
        IN  /\ Len(processedContent) <= Len(paragraphs)
            /\ \A p \in 1..Len(processedContent) :
                   JoinSegs(processedContent[p].children) = paragraphs[p]
            /\ JoinParagraphs(processedContent) = WithoutNewlines(text)

C1_Witness ==
    /\ rendered
    /\ Enabled13
    /\ \E pk \in ParagraphSegs :
           /\ Len(processedContent[pk[1]].children) >= 2
           /\ SegAt(pk).hasBold
           /\ SegAt(pk).trailing # <<>>

(***************************************************************************)
(* C2 Paragraph count: the number of rendered paragraphs equals the number *)
(* of maximal non-empty runs of non-newline characters of the text, and no *)
(* rendered paragraph has the empty string as its text.                    *)
(***************************************************************************)
C2_ParagraphCount ==
    rendered =>
        /\ Len(processedContent) = NonEmptyRuns(text)
        /\ \A p \in 1..Len(processedContent) : JoinSegs(processedContent[p].children) # <<>>

(***************************************************************************)
(* C3 Disabling: with bionicEnabled false every rendered paragraph is one  *)
(* segment without bold part whose text is the paragraph verbatim, and the *)
(* output is the same for every strength.                                  *)
(***************************************************************************)
C3_Disabling ==
    (rendered /\ ~settings.bionicEnabled) =>
        LET paragraphs == SplitNewlines(text)
        IN  /\ Len(processedContent) = Len(paragraphs)
            /\ \A p \in 1..Len(processedContent) :
                   /\ Len(processedContent[p].children) = 1
                   /\ ~processedContent[p].children[1].hasBold
                   /\ processedContent[p].children[1].bold = <<>>
                   /\ processedContent[p].children[1].space = <<>>
                   /\ SegText(processedContent[p].children[1]) = paragraphs[p]
            /\ \A s \in Strengths :
                   ProcessedContent(text, [settings EXCEPT !.bionicStrength = s], Intl)
                       = processedContent

C3_Witness ==
    /\ rendered
    /\ ~settings.bionicEnabled
    /\ settings.bionicStrength = 3
    /\ Len(processedContent) = 2
    /\ HasChinese(SegText(processedContent[1].children[1]))
    /\ SPACE \in {SegText(processedContent[2].children[1])[i] :
                     i \in 1..Len(SegText(processedContent[2].children[1]))}

(***************************************************************************)
(* C4 Same paragraph splitting in both modes: the enabled and the disabled *)
(* path render the same number of paragraphs, the i-th of each from the    *)
(* same paragraph string.                                                  *)
(***************************************************************************)
C4_SameSplitting ==
    rendered =>
        LET other == ProcessedContent(text,
                         [settings EXCEPT !.bionicEnabled = ~settings.bionicEnabled], Intl)
        IN  /\ Len(processedContent) = Len(other)
            /\ \A p \in 1..Min(Len(processedContent), Len(other)) :
                   JoinSegs(processedContent[p].children) = JoinSegs(other[p].children)

(***************************************************************************)
(* C5 Bold-length bound: for every annotated segment, of core length       *)
(* L >= 1, and strengths 1..3, 0 <= boldLength <= L, so the bold part has  *)
(* exactly boldLength characters and bold and normal make up the core.     *)
(***************************************************************************)
C5_BoldLengthBound ==
    (rendered /\ Enabled13) =>
        \A pk \in ParagraphSegs :
            SegAt(pk).hasBold =>
                LET L == CoreLength(SegAt(pk))
                    boldLength == IF IsChineseParagraph(pk)
                                  THEN ChineseBoldLength(L, settings.bionicStrength)
                                  ELSE LatinBoldLength(L, settings.bionicStrength)
                IN  /\ L >= 1
                    /\ 0 <= boldLength
                    /\ boldLength <= L
                    /\ Len(SegAt(pk).bold) = boldLength

C5_Witness ==
    /\ rendered
    /\ Enabled13
    /\ \E pk \in ParagraphSegs :
           /\ SegAt(pk).hasBold
           /\ CoreLength(SegAt(pk)) = 1
           /\ Len(SegAt(pk).bold) = 1
           /\ settings.bionicStrength = 3

(***************************************************************************)
(* C6 Latin bold-length table: a Latin core of length L gets 1 bold        *)
(* character when L <= 3 and the strength is 1 or 2, ceil(L/2) when L > 3  *)
(* and the strength is 1 or 2, and ceil(0.6 L) when the strength is 3.     *)
(***************************************************************************)
C6_LatinTable ==
    (rendered /\ Enabled13) =>
        \A pk \in ParagraphSegs :
            (SegAt(pk).hasBold /\ ~IsChineseParagraph(pk)) =>
                LET L == CoreLength(SegAt(pk))
                IN  Len(SegAt(pk).bold) =
                        IF settings.bionicStrength = 3 THEN (6 * L + 9) \div 10
                        ELSE IF L <= 3 THEN 1
                        ELSE (L + 1) \div 2

C6_Witness ==
    /\ rendered
    /\ settings.bionicEnabled
    /\ settings.bionicStrength = 3
    /\ \E pk \in ParagraphSegs :
           /\ ~IsChineseParagraph(pk)
           /\ SegAt(pk).hasBold
           /\ CoreLength(SegAt(pk)) = 13
           /\ Len(SegAt(pk).bold) = 8

(***************************************************************************)
(* C7 CJK bold-length table: an annotated segment of length L of a CJK     *)
(* paragraph gets 1 bold character at strength 1; at strength 2, 1 for     *)
(* L = 1 and ceil(L/2) for L >= 2; at strength 3, ceil(0.7 L).             *)
(***************************************************************************)
C7_ChineseTable ==
    (rendered /\ Enabled13) =>
        \A pk \in ParagraphSegs :
            (SegAt(pk).hasBold /\ IsChineseParagraph(pk)) =>
                LET L == CoreLength(SegAt(pk))
                IN  Len(SegAt(pk).bold) =
                        IF settings.bionicStrength = 1 THEN 1
                        ELSE IF settings.bionicStrength = 2
                             THEN (IF L = 1 THEN 1 ELSE (L + 1) \div 2)
                        ELSE (7 * L + 9) \div 10

C7_Witness ==
    /\ rendered
    /\ settings.bionicEnabled
    /\ settings.bionicStrength = 3
    /\ \E pk \in ParagraphSegs :
           /\ IsChineseParagraph(pk)
           /\ SegAt(pk).hasBold
           /\ CoreLength(SegAt(pk)) = 4
           /\ Len(SegAt(pk).bold) = 3

(***************************************************************************)
(* C8 Invalid strength fails fast: called with a strength outside 1..3 the *)
(* engine signals an invalid argument and returns no annotation.           *)
(***************************************************************************)
C8_InvalidStrengthFailsFast ==
    (rendered /\ settings.bionicEnabled /\ settings.bionicStrength \notin 1..3) =>
        /\ thrown
        /\ processedContent = <<>>

(***************************************************************************)
(* C9 Empty input: the empty text, with bionicEnabled true and any         *)
(* strength in 1..3, renders the empty sequence of paragraphs.             *)
(***************************************************************************)
C9_EmptyInput ==
    (rendered /\ Enabled13 /\ text = <<>>) => processedContent = <<>>

C9_Witness ==
    /\ rendered
    /\ text = <<>>
    /\ settings.bionicEnabled
    /\ settings.bionicStrength = 2
    /\ ~thrown

(***************************************************************************)
(* C10 Per-paragraph mode choice: a paragraph is rendered in CJK mode      *)
(* exactly if it contains a character in U+4E00..U+9FA5; in a CJK          *)
(* paragraph every segment comes from the CJK segmentation and gets the    *)
(* CJK bold length (Latin words in it too), in a Latin paragraph every     *)
(* token comes from the split on spaces and gets the Latin bold length.    *)
(***************************************************************************)
C10_ModePerParagraph ==
    (rendered /\ Enabled13 /\ text # <<>>) =>
        LET paragraphs == SplitNewlines(text)
        IN  /\ Len(processedContent) = Len(paragraphs)
            /\ \A p \in 1..Len(processedContent) :
                   LET par == processedContent[p]
                       n == Len(par.children)
                   IN  /\ par.className \in {PClass, PClassChinese}
                       /\ (par.className = PClassChinese) <=>
                              (\E i \in 1..Len(paragraphs[p]) :
                                   paragraphs[p][i] \in 19968..40869)
                       /\ IF par.className = PClassChinese
                          THEN /\ [k \in 1..n |-> SegText(par.children[k])]
                                      = Segments(paragraphs[p], Intl)
                               /\ \A k \in 1..n :
                                      /\ par.children[k].space = <<>>
                                      /\ par.children[k].hasBold =>
                                             Len(par.children[k].bold) =
                                                 ChineseBoldLength(CoreLength(par.children[k]),
                                                                   settings.bionicStrength)
                          ELSE /\ [k \in 1..n |-> SegText(par.children[k])]
                                      = SplitSpace(paragraphs[p])
                               /\ \A k \in 1..n :
                                      /\ par.children[k].space = <<SPACE>>
                                      /\ par.children[k].hasBold =>
                                             Len(par.children[k].bold) =
                                                 LatinBoldLength(CoreLength(par.children[k]),
                                                                 settings.bionicStrength)

C10_Witness ==
    /\ rendered
    /\ Enabled13
    /\ \E pk \in ParagraphSegs :
           /\ IsChineseParagraph(pk)
           /\ SegAt(pk).hasBold
           /\ SegAt(pk).bold = <<97>>
           /\ ~HasChinese(SegText(SegAt(pk)))

(***************************************************************************)
(* C11 Latin tokenisation fidelity: a Latin paragraph is split on the      *)
(* space character only and empty tokens are kept as zero-length segments, *)
(* so a paragraph with k spaces renders exactly k+1 segments, in the order *)
(* of the tokens.                                                          *)
(***************************************************************************)
CountSpaces(s) == Cardinality({i \in 1..Len(s) : s[i] = SPACE})

\* the token that follows the n-th space of s (n = 0: the first token)
TokenAfterSpace(s, n) ==
    LET spaces == {i \in 1..Len(s) : s[i] = SPACE}
        startOf == IF n = 0 THEN 1
                   ELSE 1 + CHOOSE i \in spaces :
                                Cardinality({j \in spaces : j <= i}) = n
        endOf == IF \E i \in spaces : i >= startOf
                 THEN (CHOOSE i \in spaces : i >= startOf /\
                           \A j \in spaces : j >= startOf => i <= j) - 1
                 ELSE Len(s)
    IN  SubSeq(s, startOf, endOf)

C11_LatinTokenisation ==
    (rendered /\ Enabled13 /\ text # <<>>) =>
        LET paragraphs == SplitNewlines(text)
        IN  \A p \in 1..Len(processedContent) :
                processedContent[p].className = PClass =>
                    /\ Len(processedContent[p].children) = CountSpaces(paragraphs[p]) + 1
                    /\ \A k \in 1..Len(processedContent[p].children) :
                           SegText(processedContent[p].children[k])
                               = TokenAfterSpace(paragraphs[p], k - 1)

C11_Witness ==
    /\ rendered
    /\ Enabled13
    /\ \E p \in 1..Len(processedContent) :
           /\ processedContent[p].className = PClass
           /\ Len(processedContent[p].children) = 3
           /\ SegText(processedContent[p].children[2]) = <<>>
           /\ SegText(processedContent[p].children[1]) # <<>>

(***************************************************************************)
(* C13 CJK pass-through: in a CJK paragraph a segment that is all          *)
(* whitespace, or that has no word character and no ideograph of           *)
(* U+4E00..U+9FA5, is rendered unchanged without bold part; every other    *)
(* segment is rendered with the bold prefix of the CJK policy.             *)
(***************************************************************************)
C13_ChinesePassThrough ==
    (rendered /\ Enabled13) =>
        \A pk \in ParagraphSegs :
            IsChineseParagraph(pk) =>
                LET seg == SegAt(pk)
                    w == SegText(seg)
                    allSpace == \A i \in 1..Len(w) : w[i] \in {9, 10, 11, 12, 13, 32, 160}
                    symbol == \A i \in 1..Len(w) :
                                  /\ ~(w[i] \in 48..57 \/ w[i] \in 65..90 \/ w[i] = 95
                                         \/ w[i] \in 97..122)
                                  /\ ~(w[i] \in 19968..40869)
                IN  IF allSpace \/ symbol
                    THEN /\ ~seg.hasBold
                         /\ seg.bold = <<>>
                         /\ seg.leading = w
                    ELSE /\ seg.hasBold
                         /\ seg.bold # <<>>
                         /\ seg.bold = SubSeq(w, 1, Len(seg.bold))
                         /\ Len(seg.bold) = ChineseBoldLength(Len(w), settings.bionicStrength)

C13_Witness ==
    /\ rendered
    /\ Enabled13
    /\ \E pk \in ParagraphSegs :
           /\ IsChineseParagraph(pk)
           /\ ~SegAt(pk).hasBold
           /\ SegText(SegAt(pk)) = <<46>>
    /\ \E pk \in ParagraphSegs :
           /\ IsChineseParagraph(pk)
           /\ SegAt(pk).hasBold

(***************************************************************************)
(* C14 Strength monotonicity: for every segment, Latin or CJK, the bold    *)
(* length does not decrease when the strength goes from 1 to 2 to 3; a     *)
(* Latin core of length 8 gets 4, 4 and 5.                                 *)
(***************************************************************************)
AtStrength(s) == ProcessedContent(text, [settings EXCEPT !.bionicStrength = s], Intl)

C14_StrengthMonotone ==
    (rendered /\ Enabled13) =>
        /\ processedContent = AtStrength(settings.bionicStrength)
        /\ \A pk \in ParagraphSegs :
               LET b1 == Len(AtStrength(1)[pk[1]].children[pk[2]].bold)
                   b2 == Len(AtStrength(2)[pk[1]].children[pk[2]].bold)
                   b3 == Len(AtStrength(3)[pk[1]].children[pk[2]].bold)
               IN  /\ b1 <= b2
                   /\ b2 <= b3
                   /\ (SegAt(pk).hasBold /\ ~IsChineseParagraph(pk)
                          /\ CoreLength(SegAt(pk)) = 8) =>
                          (b1 = 4 /\ b2 = 4 /\ b3 = 5)

C14_Witness ==
    /\ rendered
    /\ settings.bionicEnabled
    /\ settings.bionicStrength = 3
    /\ \E pk \in ParagraphSegs :
           /\ ~IsChineseParagraph(pk)
           /\ SegAt(pk).hasBold
           /\ CoreLength(SegAt(pk)) = 8
           /\ Len(SegAt(pk).bold) = 5

(***************************************************************************)
(* C18 Latin pass-through only for core-less tokens: in a Latin paragraph  *)
(* a token is rendered without bold part only if it has no core character  *)
(* (word character, accented Latin letter, CJK code point, apostrophe or   *)
(* hyphen); every token with a core character has a non-empty bold prefix. *)
(***************************************************************************)
C18_LatinPassThroughOnlyCoreless ==
    (rendered /\ Enabled13) =>
        \A pk \in ParagraphSegs :
            ~IsChineseParagraph(pk) =>
                LET seg == SegAt(pk)
                    w == SegText(seg)
                    hasCore == \E i \in 1..Len(w) :
                                   \/ w[i] \in 48..57 \/ w[i] \in 65..90 \/ w[i] = 95
                                   \/ w[i] \in 97..122
                                   \/ w[i] \in 192..383
                                   \/ w[i] \in 19968..40959
                                   \/ w[i] \in {39, 45}
                IN  /\ (~seg.hasBold) => ~hasCore
                    /\ hasCore => (seg.hasBold /\ seg.bold # <<>>)

(***************************************************************************)
(* C12 Settings provider: in every state of App, whatever the sequence of  *)
(* SettingsPanel updates, the bionicStrength handed to Reader is one of    *)
(* 1, 2, 3.                                                                *)
(***************************************************************************)
C12_StrengthInRange ==
    /\ settings.bionicStrength \in {1, 2, 3}
    /\ rendered => processedContent = ProcessedContent(text, settings, Intl)

C12_Witness ==
    /\ rendered
    /\ settings.bionicStrength = 3
    /\ settings.readingRulerEnabled
    /\ ~settings.bionicEnabled
    /\ processedContent # <<>>

(***************************************************************************)
(* C15 Audio cleanup: after text or viewMode changed, and until Listen is  *)
(* pressed again, no audio source is playing and processing.isSpeaking is  *)
(* false, whatever the handleTTS call in flight was doing.                 *)
(***************************************************************************)
\* a started source that the context renders (or will, once the messages
\* already sent to it are processed)
Playing(c) == sources[c].state = "started" /\ audioContextRef.target = "running"

C15_AudioCleanup ==
    sinceChange =>
        /\ ~processing.isSpeaking
        /\ \A c \in CallIds : ~Playing(c)

(***************************************************************************)
(* C16 Speaking flag tracks playback: whenever a source has been started   *)
(* and has neither ended nor been stopped, processing.isSpeaking is true.  *)
(***************************************************************************)
C16_SpeakingTracksPlayback ==
    \A c \in CallIds : sources[c].state = "started" => processing.isSpeaking

(***************************************************************************)
(* C17 Single playback: at most one source is started and not finished at  *)
(* any time, and audioSourceRef.current refers to it whenever there is one.*)
(***************************************************************************)
C17_SinglePlayback ==
    /\ Cardinality({c \in CallIds : sources[c].state = "started"}) <= 1
    /\ \A c \in CallIds : sources[c].state = "started" => audioSourceRef = c

====
